---- MODULE Spec2Model ----
(***************************************************************************)
(* Model of the frontend-asset-proxy: the chi route table of cmd/proxy     *)
(* (main) and the S3 proxying handler of internal/s3 (ProxyS3,             *)
(* s3ErrorToStatus, JoinPath, setHeaderFromStringPtr).                     *)
(*                                                                         *)
(* Go strings that the code inspects byte by byte (URL paths, the prefix,  *)
(* the SPA entry path, bucket and key) are sequences of one-character      *)
(* strings.  Strings the code only copies (header values, content types,   *)
(* bodies) are plain TLA+ strings.  A Go nil pointer is the empty          *)
(* sequence <<>>, a non-nil pointer to v is <<v>>.                         *)
(***************************************************************************)
EXTENDS Integers, Sequences, FiniteSets, TLC

(***************************************************************************)
(* String literals, spelled out as byte sequences.                         *)
(***************************************************************************)
PathHealthz == \* "/healthz"
  <<"/", "h", "e", "a", "l", "t", "h", "z">>
PathHealthzExt == \* "/healthz.json"
  <<"/", "h", "e", "a", "l", "t", "h", "z", ".", "j", "s", "o", "n">>
PathManifest == \* "/manifests/m.json"
  <<"/", "m", "a", "n", "i", "f", "e", "s", "t", "s", "/", "m", ".", "j", "s", "o", "n">>
PathAppsNav == \* "/apps/chrome/navigation.json"
  <<"/", "a", "p", "p", "s", "/", "c", "h", "r", "o", "m", "e", "/", "n", "a", "v", "i", "g", "a", "t", "i", "o", "n", ".", "j", "s", "o", "n">>
PathAppsBare == \* "/apps"
  <<"/", "a", "p", "p", "s">>
PathUnknown == \* "/unknown/path"
  <<"/", "u", "n", "k", "n", "o", "w", "n", "/", "p", "a", "t", "h">>
PathSpaDirect == \* "/frontend-assets/data/index.html"
  <<"/", "f", "r", "o", "n", "t", "e", "n", "d", "-", "a", "s", "s", "e", "t", "s", "/", "d", "a", "t", "a", "/", "i", "n", "d", "e", "x", ".", "h", "t", "m", "l">>
PathIndex == \* "/index.html"
  <<"/", "i", "n", "d", "e", "x", ".", "h", "t", "m", "l">>
PathRoot == \* "/"
  <<"/">>
PathEscaped == \* "/a%2Fb"
  <<"/", "a", "%", "2", "F", "b">>
PathBadEscape == \* "/50%off"
  <<"/", "5", "0", "%", "o", "f", "f">>
PrefixDefault == \* "/frontend-assets"
  <<"/", "f", "r", "o", "n", "t", "e", "n", "d", "-", "a", "s", "s", "e", "t", "s">>
PrefixSlash == \* "/frontend-assets/"
  <<"/", "f", "r", "o", "n", "t", "e", "n", "d", "-", "a", "s", "s", "e", "t", "s", "/">>
PrefixRoot == \* "/"
  <<"/">>
SpaDefault == \* "/index.html"
  <<"/", "i", "n", "d", "e", "x", ".", "h", "t", "m", "l">>
SpaData == \* "/data/index.html"
  <<"/", "d", "a", "t", "a", "/", "i", "n", "d", "e", "x", ".", "h", "t", "m", "l">>
SpaNoSlash == \* "index.html"
  <<"i", "n", "d", "e", "x", ".", "h", "t", "m", "l">>
FullNoBucket == \* "/nobucket"
  <<"/", "n", "o", "b", "u", "c", "k", "e", "t">>
FullOnlyBucket == \* "/bucket/"
  <<"/", "b", "u", "c", "k", "e", "t", "/">>
FullBucketKey == \* "/bucket/key.txt"
  <<"/", "b", "u", "c", "k", "e", "t", "/", "k", "e", "y", ".", "t", "x", "t">>
FullEncodedKey == \* "/bucket/path/to%20file.txt"
  <<"/", "b", "u", "c", "k", "e", "t", "/", "p", "a", "t", "h", "/", "t", "o", "%", "2", "0", "f", "i", "l", "e", ".", "t", "x", "t">>
FullEmptyBucket == \* "//key"
  <<"/", "/", "k", "e", "y">>
FullSpaObject == \* "/frontend-assets/index.html"
  <<"/", "f", "r", "o", "n", "t", "e", "n", "d", "-", "a", "s", "s", "e", "t", "s", "/", "i", "n", "d", "e", "x", ".", "h", "t", "m", "l">>
ObjUnknown == \* "/frontend-assets/data/unknown/path"
  <<"/", "f", "r", "o", "n", "t", "e", "n", "d", "-", "a", "s", "s", "e", "t", "s", "/", "d", "a", "t", "a", "/", "u", "n", "k", "n", "o", "w", "n", "/", "p", "a", "t", "h">>
ObjSpaUnderData == \* "/frontend-assets/data/index.html"
  <<"/", "f", "r", "o", "n", "t", "e", "n", "d", "-", "a", "s", "s", "e", "t", "s", "/", "d", "a", "t", "a", "/", "i", "n", "d", "e", "x", ".", "h", "t", "m", "l">>
ObjNavNoApp == \* "/frontend-assets/data/navigation.json"
  <<"/", "f", "r", "o", "n", "t", "e", "n", "d", "-", "a", "s", "s", "e", "t", "s", "/", "d", "a", "t", "a", "/", "n", "a", "v", "i", "g", "a", "t", "i", "o", "n", ".", "j", "s", "o", "n">>
ObjNavWithApp == \* "/frontend-assets/data/chrome/navigation.json"
  <<"/", "f", "r", "o", "n", "t", "e", "n", "d", "-", "a", "s", "s", "e", "t", "s", "/", "d", "a", "t", "a", "/", "c", "h", "r", "o", "m", "e", "/", "n", "a", "v", "i", "g", "a", "t", "i", "o", "n", ".", "j", "s", "o", "n">>
SegFrontendAssets == \* "frontend-assets"
  <<"f", "r", "o", "n", "t", "e", "n", "d", "-", "a", "s", "s", "e", "t", "s">>
KeySpaRoot == \* "index.html"
  <<"i", "n", "d", "e", "x", ".", "h", "t", "m", "l">>
KeySpaUnderData == \* "data/index.html"
  <<"d", "a", "t", "a", "/", "i", "n", "d", "e", "x", ".", "h", "t", "m", "l">>
KeyManifestUnderData == \* "data/manifests/m.json"
  <<"d", "a", "t", "a", "/", "m", "a", "n", "i", "f", "e", "s", "t", "s", "/", "m", ".", "j", "s", "o", "n">>
KeyUnknown == \* "data/unknown/path"
  <<"d", "a", "t", "a", "/", "u", "n", "k", "n", "o", "w", "n", "/", "p", "a", "t", "h">>

EmptyStr == <<>>

(***************************************************************************)
(* Go's strings package, on byte sequences.                                *)
(***************************************************************************)
HasPrefix(s, p) ==
  /\ Len(p) <= Len(s)
  /\ SubSeq(s, 1, Len(p)) = p

HasSuffix(s, p) ==
  /\ Len(p) <= Len(s)
  /\ SubSeq(s, Len(s) - Len(p) + 1, Len(s)) = p

TrimPrefix(s, p) ==
  IF HasPrefix(s, p) THEN SubSeq(s, Len(p) + 1, Len(s)) ELSE s

\* 0-based index of the first occurrence of byte c in s, -1 when absent.
IndexByte(s, c) ==
  IF \E k \in 1..Len(s) : s[k] = c
  THEN (CHOOSE k \in 1..Len(s) : s[k] = c /\ \A j \in 1..(k - 1) : s[j] # c) - 1
  ELSE -1

\* 0-based index of the last occurrence of byte c in s, -1 when absent.
LastIndexByte(s, c) ==
  IF \E k \in 1..Len(s) : s[k] = c
  THEN (CHOOSE k \in 1..Len(s) : s[k] = c /\ \A j \in (k + 1)..Len(s) : s[j] # c) - 1
  ELSE -1

\* Go slicing s[lo:hi] and s[lo:] with 0-based bounds.
Slice(s, lo, hi) == SubSeq(s, lo + 1, hi)
SliceFrom(s, lo) == SubSeq(s, lo + 1, Len(s))

Slash == <<"/">>

JoinPath_Concat(a, b) == a \o b

JoinPath(a, b) ==
  IF HasSuffix(a, Slash) /\ HasPrefix(b, Slash)
  THEN a \o SliceFrom(b, 1)
  ELSE IF ~HasSuffix(a, Slash) /\ ~HasPrefix(b, Slash)
       THEN a \o Slash \o b
       ELSE a \o b

(***************************************************************************)
(* net/url PathUnescape (unescape in mode encodePathSegment): every "%"    *)
(* must be followed by two hex digits, else the call fails; "%XY" decodes  *)
(* to the byte 16*X+Y and every other byte, "+" included, is kept.         *)
(***************************************************************************)
HexDigits ==
  <<"0", "1", "2", "3", "4", "5", "6", "7", "8", "9", "a", "b", "c", "d", "e", "f">>

HexUpper == <<"A", "B", "C", "D", "E", "F">>

ishex(c) ==
  \/ \E k \in 1..Len(HexDigits) : HexDigits[k] = c
  \/ \E k \in 1..Len(HexUpper) : HexUpper[k] = c

unhex(c) ==
  IF \E k \in 1..Len(HexDigits) : HexDigits[k] = c
  THEN (CHOOSE k \in 1..Len(HexDigits) : HexDigits[k] = c) - 1
  ELSE (CHOOSE k \in 1..Len(HexUpper) : HexUpper[k] = c) + 9

\* The printable ASCII bytes 0x20..0x7E in order (the backquote, 0x60, is
\* written as the token "\\x96").
PrintableAscii ==
  <<
     " ", "!", "\"", "#", "$", "%", "&", "'", "(", ")", "*", "+", ",", "-", ".", "/",
     "0", "1", "2", "3", "4", "5", "6", "7", "8", "9", ":", ";", "<", "=", ">", "?",
     "@", "A", "B", "C", "D", "E", "F", "G", "H", "I", "J", "K", "L", "M", "N", "O",
     "P", "Q", "R", "S", "T", "U", "V", "W", "X", "Y", "Z", "[", "\\", "]", "^", "_",
     "\\x96", "a", "b", "c", "d", "e", "f", "g", "h", "i", "j", "k", "l", "m", "n", "o",
     "p", "q", "r", "s", "t", "u", "v", "w", "x", "y", "z", "{", "|", "}", "~"
  >>

\* The one-byte string with byte value n; a byte outside the printable
\* range is written as the token "\x<n>".
ByteChr(n) ==
  IF n >= 32 /\ n <= 126 THEN PrintableAscii[n - 31] ELSE "\\x" \o ToString(n)

RECURSIVE unescapeOk(_)
unescapeOk(s) ==
  IF s = <<>> THEN TRUE
  ELSE IF Head(s) = "%"
       THEN /\ Len(s) >= 3
            /\ ishex(s[2])
            /\ ishex(s[3])
            /\ unescapeOk(SliceFrom(s, 3))
       ELSE unescapeOk(Tail(s))

RECURSIVE unescapeBytes(_)
unescapeBytes(s) ==
  IF s = <<>> THEN <<>>
  ELSE IF Head(s) = "%"
       THEN <<ByteChr(16 * unhex(s[2]) + unhex(s[3]))>> \o unescapeBytes(SliceFrom(s, 3))
       ELSE <<Head(s)>> \o unescapeBytes(Tail(s))

\* url.PathUnescape: [err |-> TRUE] or the decoded string.
PathUnescape(s) ==
  IF unescapeOk(s)
  THEN [err |-> FALSE, v |-> unescapeBytes(s)]
  ELSE [err |-> TRUE, v |-> <<>>]

(***************************************************************************)
(* HTTP status codes and net/http's StatusText for them.                   *)
(***************************************************************************)
StatusOK == 200
StatusBadRequest == 400
StatusForbidden == 403
StatusNotFound == 404
StatusMethodNotAllowed == 405
StatusRequestTimeout == 408
StatusPreconditionFailed == 412
StatusRequestedRangeNotSatisfiable == 416
StatusInternalServerError == 500
StatusBadGateway == 502
StatusServiceUnavailable == 503
StatusGatewayTimeout == 504

StatusText(code) ==
  CASE code = StatusOK -> "OK"
    [] code = 304 -> "Not Modified"
    [] code = StatusBadRequest -> "Bad Request"
    [] code = StatusForbidden -> "Forbidden"
    [] code = StatusNotFound -> "Not Found"
    [] code = StatusMethodNotAllowed -> "Method Not Allowed"
    [] code = StatusRequestTimeout -> "Request Timeout"
    [] code = StatusPreconditionFailed -> "Precondition Failed"
    [] code = StatusRequestedRangeNotSatisfiable -> "Requested Range Not Satisfiable"
    [] code = StatusInternalServerError -> "Internal Server Error"
    [] code = StatusBadGateway -> "Bad Gateway"
    [] code = StatusServiceUnavailable -> "Service Unavailable"
    [] code = StatusGatewayTimeout -> "Gateway Timeout"
    [] OTHER -> ""

(***************************************************************************)
(* Upstream errors.  A Go error is its Unwrap chain, outermost first, a    *)
(* sequence of layers:                                                     *)
(*   [kind |-> "deadline"]              context.DeadlineExceeded           *)
(*   [kind |-> "op"]                    *smithy.OperationError             *)
(*   [kind |-> "resp", status |-> n]    *smithyhttp.ResponseError whose    *)
(*                                      Response has StatusCode n; n = 0   *)
(*                                      for the response the client puts   *)
(*                                      there when none arrived, n = -1    *)
(*                                      when its Response is nil           *)
(*   [kind |-> "canceled"]              context.Canceled                   *)
(*   [kind |-> "api", code |-> c]       a smithy.APIError with ErrorCode c *)
(*   [kind |-> "plain"]                 any other error                    *)
(***************************************************************************)
ErrDeadline == [kind |-> "deadline", status |-> 0, code |-> ""]
ErrOp == [kind |-> "op", status |-> 0, code |-> ""]
ErrResp(n) == [kind |-> "resp", status |-> n, code |-> ""]
ErrRespNil == [kind |-> "resp", status |-> -1, code |-> ""]
ErrCanceled == [kind |-> "canceled", status |-> 0, code |-> ""]
ErrAPI(c) == [kind |-> "api", status |-> 0, code |-> c]
ErrPlain == [kind |-> "plain", status |-> 0, code |-> ""]

\* errors.Is(err, target) / errors.As(err, &target) for a layer kind.
HasKind(err, kind) == \E k \in 1..Len(err) : err[k].kind = kind

FirstOfKind(err, kind) ==
  CHOOSE k \in 1..Len(err) :
    /\ err[k].kind = kind
    /\ \A j \in 1..(k - 1) : err[j].kind # kind

apiCodeToStatus_UnknownInternal(code) ==
  CASE code \in {"NoSuchBucket", "NoSuchKey", "NotFound", "NoSuchVersion"} ->
         StatusNotFound
    [] code \in {"AccessDenied", "Forbidden", "SignatureDoesNotMatch",
                 "InvalidAccessKeyId", "ExpiredToken", "RequestTimeTooSkewed",
                 "InvalidObjectState"} ->
         StatusForbidden
    [] code = "PreconditionFailed" -> StatusPreconditionFailed
    [] code = "InvalidRange" -> StatusRequestedRangeNotSatisfiable
    [] code \in {"AuthorizationHeaderMalformed", "InvalidRequest",
                 "InvalidArgument", "MalformedXML"} ->
         StatusBadRequest
    [] code = "RequestTimeout" -> StatusRequestTimeout
    [] code \in {"SlowDown", "ServiceUnavailable"} -> StatusServiceUnavailable
    [] OTHER -> StatusInternalServerError

apiCodeToStatus(code) ==
  CASE code \in {"NoSuchBucket", "NoSuchKey", "NotFound", "NoSuchVersion"} ->
         StatusNotFound
    [] code \in {"AccessDenied", "Forbidden", "SignatureDoesNotMatch",
                 "InvalidAccessKeyId", "ExpiredToken", "RequestTimeTooSkewed",
                 "InvalidObjectState"} ->
         StatusForbidden
    [] code = "PreconditionFailed" -> StatusPreconditionFailed
    [] code = "InvalidRange" -> StatusRequestedRangeNotSatisfiable
    [] code \in {"AuthorizationHeaderMalformed", "InvalidRequest",
                 "InvalidArgument", "MalformedXML"} ->
         StatusBadRequest
    [] code = "RequestTimeout" -> StatusRequestTimeout
    [] code \in {"SlowDown", "ServiceUnavailable"} -> StatusServiceUnavailable
    [] code = "InternalError" -> StatusInternalServerError
    [] OTHER -> StatusBadGateway

s3ErrorToStatus_TableFirst(err) ==
  IF HasKind(err, "deadline") THEN StatusGatewayTimeout
  ELSE IF HasKind(err, "api")
          /\ apiCodeToStatus(err[FirstOfKind(err, "api")].code) # StatusBadGateway
       THEN apiCodeToStatus(err[FirstOfKind(err, "api")].code)
  ELSE IF HasKind(err, "resp") /\ err[FirstOfKind(err, "resp")] # ErrRespNil
       THEN err[FirstOfKind(err, "resp")].status
  ELSE StatusBadGateway

s3ErrorToStatus_NoResponse(err) ==
  IF HasKind(err, "deadline") THEN StatusGatewayTimeout
  ELSE IF HasKind(err, "api")
       THEN apiCodeToStatus(err[FirstOfKind(err, "api")].code)
  ELSE StatusBadGateway

RECURSIVE s3ErrorToStatus(_)
s3ErrorToStatus(err) ==
  IF HasKind(err, "deadline") THEN StatusGatewayTimeout
  ELSE IF HasKind(err, "resp") /\ err[FirstOfKind(err, "resp")] # ErrRespNil
       THEN err[FirstOfKind(err, "resp")].status
  ELSE IF HasKind(err, "op") /\ FirstOfKind(err, "op") < Len(err)
       THEN s3ErrorToStatus(SliceFrom(err, FirstOfKind(err, "op")))
  ELSE IF HasKind(err, "api")
       THEN apiCodeToStatus(err[FirstOfKind(err, "api")].code)
  ELSE StatusBadGateway

(***************************************************************************)
(* net/http ParseTime and Time.Format(http.TimeFormat), on the date        *)
(* strings the model sends: a time is its Unix second.  ParseTime accepts  *)
(* the IMF-fixdate, RFC 850 and ANSI C forms and fails on anything else.   *)
(***************************************************************************)
ParseTime(v) ==
  CASE v = "Wed, 21 Oct 2015 07:28:00 GMT" -> [err |-> FALSE, t |-> 1445412480]
    [] v = "Wednesday, 21-Oct-15 07:28:00 GMT" -> [err |-> FALSE, t |-> 1445412480]
    [] v = "Wed Oct 21 07:28:00 2015" -> [err |-> FALSE, t |-> 1445412480]
    [] v = "Sun, 06 Nov 1994 08:49:37 GMT" -> [err |-> FALSE, t |-> 784111777]
    [] OTHER -> [err |-> TRUE, t |-> 0]

FormatHTTPTime(t) ==
  CASE t = 1445412480 -> "Wed, 21 Oct 2015 07:28:00 GMT"
    [] t = 784111777 -> "Sun, 06 Nov 1994 08:49:37 GMT"
    [] OTHER -> "unix:" \o ToString(t)

(***************************************************************************)
(* The route table of main and chi's dispatch over it.                     *)
(***************************************************************************)
PatHealthz == \* "/healthz"
  <<"/", "h", "e", "a", "l", "t", "h", "z">>
PatManifests == \* "/manifests/"
  <<"/", "m", "a", "n", "i", "f", "e", "s", "t", "s", "/">>
PatApps == \* "/apps/"
  <<"/", "a", "p", "p", "s", "/">>
StrApps == \* "/apps"
  <<"/", "a", "p", "p", "s">>
StrData == \* "/data"
  <<"/", "d", "a", "t", "a">>

\* middleware.URLFormat: the path the router matches on is the request path
\* with the extension of its last segment cut off (r.URL.Path is untouched).
URLFormat(path) ==
  IF IndexByte(path, ".") > 0
  THEN LET base == LastIndexByte(path, "/")
           idx == LastIndexByte(SliceFrom(path, base), ".")
       IN  IF idx > 0 THEN Slice(path, 0, idx + base) ELSE path
  ELSE path

\* The routes main registers, in the order the router tries them: a static
\* pattern before the root catch-all.  A pattern ending in "*" matches every
\* routing path that starts with what precedes the "*".
Routes ==
  << [method |-> "GET", static |-> PatHealthz, wildcard |-> FALSE, handler |-> "healthz"],
     [method |-> "GET", static |-> PatManifests, wildcard |-> TRUE, handler |-> "manifests"],
     [method |-> "GET", static |-> PatApps, wildcard |-> TRUE, handler |-> "apps"],
     [method |-> "HEAD", static |-> Slash, wildcard |-> TRUE, handler |-> "head"],
     [method |-> "GET", static |-> Slash, wildcard |-> TRUE, handler |-> "get"] >>

\* The methods chi's method map knows.
RouterMethods ==
  {"CONNECT", "DELETE", "GET", "HEAD", "OPTIONS", "PATCH", "POST", "PUT", "TRACE"}

PatternMatches(rt, routePath) ==
  IF rt.wildcard THEN HasPrefix(routePath, rt.static) ELSE routePath = rt.static

FindRoute_NoFallthrough(method, routePath) ==
  LET seen == {k \in 1..Len(Routes) : PatternMatches(Routes[k], routePath)}
      first == CHOOSE k \in seen : \A j \in seen : k <= j
  IN  IF method \notin RouterMethods THEN "methodNotAllowed"
      ELSE IF seen = {} THEN "notFound"
      ELSE IF Routes[first].method = method THEN Routes[first].handler
      ELSE IF \E k \in seen : Routes[k].static = Routes[first].static
                               /\ Routes[k].method = method
           THEN Routes[CHOOSE k \in seen : Routes[k].static = Routes[first].static
                                          /\ Routes[k].method = method].handler
      ELSE "methodNotAllowed"

FindRoute_CatchAllAnyMethod(method, routePath) ==
  LET hits == {k \in 1..Len(Routes) :
                 /\ PatternMatches(Routes[k], routePath)
                 /\ (Routes[k].method = method \/ Routes[k].handler = "get")}
  IN  IF method \notin RouterMethods THEN "methodNotAllowed"
      ELSE IF hits # {} THEN Routes[CHOOSE k \in hits : \A j \in hits : k <= j].handler
      ELSE "notFound"

\* Mux.routeHTTP: the first route whose pattern matches and that has an
\* endpoint for the method; a pattern that matches without such an endpoint
\* only marks the request method-not-allowed and the search goes on.
FindRoute(method, routePath) ==
  LET hits == {k \in 1..Len(Routes) :
                 /\ PatternMatches(Routes[k], routePath)
                 /\ Routes[k].method = method}
      seen == {k \in 1..Len(Routes) : PatternMatches(Routes[k], routePath)}
  IN  IF method \notin RouterMethods THEN "methodNotAllowed"
      ELSE IF hits # {} THEN Routes[CHOOSE k \in hits : \A j \in hits : k <= j].handler
      ELSE IF seen # {} THEN "methodNotAllowed"
      ELSE "notFound"

\* The object path each proxying handler hands to ProxyS3.
ManifestsFull(prefix, path) == JoinPath(prefix, path)

AppsFull_NoTrim(prefix, path) == JoinPath(prefix, StrData \o path)

AppsFull(prefix, path) == JoinPath(prefix, StrData \o TrimPrefix(path, StrApps))

DataFull(prefix, path) == JoinPath(prefix, StrData \o path)

ResolveFull(handler, prefix, path) ==
  CASE handler = "manifests" -> ManifestsFull(prefix, path)
    [] handler = "apps" -> AppsFull(prefix, path)
    [] handler \in {"head", "get"} -> DataFull(prefix, path)

(***************************************************************************)
(* Inputs of the model: configurations, requests and upstream outcomes.    *)
(***************************************************************************)
NumReqs == 2

Reqs == 1..NumReqs

\* FrontendAssetProxyConfig, the two fields the handlers read.  FromEnv
\* never leaves either empty (getEnv falls back to the default); the
\* package's tests call ProxyS3 with the zero configuration.
Configs ==
  { [BucketPathPrefix |-> PrefixDefault, SPAEntrypointPath |-> SpaDefault],
    [BucketPathPrefix |-> PrefixDefault, SPAEntrypointPath |-> SpaData],
    [BucketPathPrefix |-> PrefixSlash, SPAEntrypointPath |-> SpaNoSlash],
    [BucketPathPrefix |-> PrefixRoot, SPAEntrypointPath |-> SpaDefault],
    [BucketPathPrefix |-> EmptyStr, SPAEntrypointPath |-> EmptyStr] }

FromEnvPossible(c) == c.BucketPathPrefix # EmptyStr /\ c.SPAEntrypointPath # EmptyStr

Methods == {"GET", "HEAD", "POST", "PURGE"}

RequestPaths ==
  { PathHealthz, PathHealthzExt, PathManifest, PathAppsNav, PathAppsBare,
    PathUnknown, PathSpaDirect, PathIndex, PathRoot, PathEscaped, PathBadEscape }

\* Object paths handed to ProxyS3 directly, as the package's tests do.
DirectFulls ==
  { EmptyStr, FullNoBucket, FullOnlyBucket, FullEmptyBucket, FullBucketKey,
    FullEncodedKey, FullSpaObject }

\* Request headers: r.Header.Get yields "" for a header that is absent.
NoHeaders ==
  [Range |-> "", IfNoneMatch |-> "", IfMatch |-> "",
   IfModifiedSince |-> "", IfUnmodifiedSince |-> ""]

HeaderSamples ==
  { NoHeaders,
    [Range |-> "bytes=0-100", IfNoneMatch |-> "\"old-etag\"",
     IfMatch |-> "\"current-etag\"",
     IfModifiedSince |-> "Wed, 21 Oct 2015 07:28:00 GMT",
     IfUnmodifiedSince |-> "Wednesday, 21-Oct-15 07:28:00 GMT"],
    [Range |-> "", IfNoneMatch |-> "\"old-etag\"", IfMatch |-> "",
     IfModifiedSince |-> "yesterday",
     IfUnmodifiedSince |-> "Sun, 06 Nov 1994 08:49:37 GMT"],
    [Range |-> "bytes=0-100", IfNoneMatch |-> "", IfMatch |-> "\"current-etag\"",
     IfModifiedSince |-> "Wed Oct 21 07:28:00 2015",
     IfUnmodifiedSince |-> "2015-10-21T07:28:00Z"] }

\* s3.GetObjectOutput: nil pointer fields are <<>>; Body is the chunks the
\* stream yields.
NilObj ==
  [ContentType |-> <<>>, ETag |-> <<>>, CacheControl |-> <<>>,
   ContentEncoding |-> <<>>, ContentDisposition |-> <<>>,
   ContentLanguage |-> <<>>, ExpiresString |-> <<>>, AcceptRanges |-> <<>>,
   ContentLength |-> <<>>, LastModified |-> <<>>, Body |-> <<>>]

ObjJson ==
  [NilObj EXCEPT !.ContentType = <<"application/json">>,
                 !.ETag = <<"\"nav-etag\"">>,
                 !.ContentLength = <<17>>,
                 !.LastModified = <<1445412480>>,
                 !.Body = <<"{\"nav\":", "\"items\"}">>]

ObjSpa ==
  [NilObj EXCEPT !.ContentType = <<"text/html">>,
                 !.CacheControl = <<"no-cache">>,
                 !.AcceptRanges = <<"bytes">>,
                 !.Body = <<"<html>spa</html>">>]

ObjBare == [NilObj EXCEPT !.Body = <<"raw">>]

\* An object whose Content-Encoding header came back empty: the field is a
\* non-nil pointer to "".
ObjEmptyEncoding ==
  [NilObj EXCEPT !.ContentType = <<"text/css">>,
                 !.ContentEncoding = <<"">>,
                 !.Body = <<"a{}">>]

ObjSamples == {ObjJson, ObjSpa, ObjBare, ObjEmptyEncoding}

ErrSamples ==
  { <<ErrAPI("NoSuchKey")>>,
    <<ErrOp, ErrResp(403), ErrAPI("AccessDenied")>>,
    <<ErrOp, ErrDeadline>>,
    <<ErrOp, ErrResp(304), ErrAPI("NotModified")>>,
    <<ErrOp, ErrAPI("PreconditionFailed")>>,
    <<ErrAPI("InternalError")>>,
    <<ErrPlain>> }

\* What one GetObject call returns: (obj, nil) or (nil, err).
Outcomes ==
  {[err |-> e, obj |-> NilObj] : e \in ErrSamples}
    \cup {[err |-> <<>>, obj |-> o] : o \in ObjSamples}

(***************************************************************************)
(* State.                                                                  *)
(***************************************************************************)
VARIABLES
  cfg,      \* the process configuration, fixed at start
  req,      \* per request: where its handler is and what it was given
  fetches,  \* per request: the GetObjectInput of every GetObject call made
  results,  \* per request: what each returned GetObject call returned
  resp,     \* per request: what the handler has done to its ResponseWriter
            \* (body: the chunks it wrote, as a ResponseRecorder keeps them)
  streams,  \* per request: body streams obtained and closed
  joined    \* the last JoinPath call made on its own: <<>> or <<[a, b, out]>>

vars == <<cfg, req, fetches, results, resp, streams, joined>>

HeaderNames ==
  { "Vary", "Content-Type", "ETag", "Cache-Control", "Content-Encoding",
    "Content-Disposition", "Content-Language", "Expires", "Accept-Ranges",
    "Content-Length", "Last-Modified", "Allow", "X-Content-Type-Options" }

IdleReq ==
  [pc |-> "idle", via |-> "", method |-> "", path |-> EmptyStr,
   hdr |-> NoHeaders, handler |-> "", full0 |-> EmptyStr, full |-> EmptyStr,
   depth |-> 0, obj |-> NilObj,
   canceled |-> FALSE,  \* r.Context() is done: the client went away
   sent |-> 0]          \* GetObject calls made while r.Context() was live

NoResp ==
  [status |-> 0, writes |-> 0, header |-> [h \in HeaderNames |-> <<>>],
   body |-> <<>>, aborted |-> FALSE,
   panicked |-> FALSE]  \* the handler panicked in a call on the writer

NoStreams == [opened |-> 0, closed |-> 0]

Init ==
  /\ cfg \in Configs
  /\ req = [i \in Reqs |-> IdleReq]
  /\ fetches = [i \in Reqs |-> <<>>]
  /\ results = [i \in Reqs |-> <<>>]
  /\ resp = [i \in Reqs |-> NoResp]
  /\ streams = [i \in Reqs |-> NoStreams]
  /\ joined = <<>>

(***************************************************************************)
(* The ResponseWriter.                                                     *)
(***************************************************************************)
SetHeader(rs, key, v) == [rs EXCEPT !.header[key] = <<v>>]

\* The first WriteHeader fixes the status; a further call is superfluous
\* and only counted.  net/http panics on a code that is not three digits
\* long ("invalid WriteHeader code") and writes nothing.
WriteHeader(rs, code) ==
  IF code < 100 \/ code > 999
  THEN [rs EXCEPT !.panicked = TRUE]
  ELSE [rs EXCEPT !.status = IF rs.writes = 0 THEN code ELSE @, !.writes = @ + 1]

Write(rs, chunk) == [rs EXCEPT !.body = Append(@, chunk)]

HttpError_StatusLineBody(rs, msg, code) ==
  LET h1 == [rs EXCEPT !.header["Content-Length"] = <<>>]
      h2 == SetHeader(h1, "Content-Type", "text/plain; charset=utf-8")
      h3 == SetHeader(h2, "X-Content-Type-Options", "nosniff")
  IN  Write(WriteHeader(h3, code), ToString(code) \o " " \o msg \o "\n")

\* http.Error
HttpError(rs, msg, code) ==
  LET h1 == [rs EXCEPT !.header["Content-Length"] = <<>>]
      h2 == SetHeader(h1, "Content-Type", "text/plain; charset=utf-8")
      h3 == SetHeader(h2, "X-Content-Type-Options", "nosniff")
      w == WriteHeader(h3, code)
  IN  IF w.panicked THEN w ELSE Write(w, msg \o "\n")

\* middleware.Recoverer, which main puts around every routed handler: a
\* panic of the handler is recovered and answered with 500.  A caller of
\* ProxyS3 other than the router gets the panic.
Recoverer(r, rs) ==
  IF rs.panicked /\ r.via = "router"
  THEN WriteHeader(rs, StatusInternalServerError)
  ELSE rs

setHeaderFromStringPtr(rs, key, val) ==
  IF val # <<>> THEN SetHeader(rs, key, val[1]) ELSE rs

(***************************************************************************)
(* ProxyS3.                                                                *)
(***************************************************************************)
\* A header value as a *string field: unset when the header is empty.
StringField(v) == IF v # "" THEN <<v>> ELSE <<>>

TimeField_Never(v) == <<>>

TimeField_ZeroOnError(v) ==
  IF v = "" THEN <<>> ELSE <<ParseTime(v).t>>

\* A date header as a *time.Time field: unset when empty or unparsable.
TimeField(v) ==
  IF v # "" /\ ~ParseTime(v).err THEN <<ParseTime(v).t>> ELSE <<>>

\* The s3.GetObjectInput built from bucket, key and the request's headers.
GetObjectInput(bucket, key, hdr) ==
  [Bucket |-> bucket, Key |-> key,
   Range |-> StringField(hdr.Range),
   IfNoneMatch |-> StringField(hdr.IfNoneMatch),
   IfMatch |-> StringField(hdr.IfMatch),
   IfModifiedSince |-> TimeField(hdr.IfModifiedSince),
   IfUnmodifiedSince |-> TimeField(hdr.IfUnmodifiedSince)]

\* full does not split into a non-empty bucket and a non-empty key.
InvalidPath_AllowsEmptyKey(full) ==
  LET path == TrimPrefix(full, Slash)
      idx == IndexByte(path, "/")
  IN  idx <= 0

InvalidPath(full) ==
  LET path == TrimPrefix(full, Slash)
      idx == IndexByte(path, "/")
  IN  idx <= 0 \/ idx >= Len(path) - 1

BucketOf(full) ==
  LET path == TrimPrefix(full, Slash)
  IN  Slice(path, 0, IndexByte(path, "/"))

KeyOf_NoDecode(full) ==
  LET path == TrimPrefix(full, Slash)
  IN  SliceFrom(path, IndexByte(path, "/") + 1)

KeyOf(full) ==
  LET path == TrimPrefix(full, Slash)
      raw == SliceFrom(path, IndexByte(path, "/") + 1)
      un == PathUnescape(raw)
  IN  IF un.err THEN raw ELSE un.v

ProxyS3Call_DetachedContext(r, full, log, rs) ==
  IF InvalidPath(full)
  THEN [req |-> [r EXCEPT !.pc = "done", !.full = full, !.depth = @ + 1],
        fetches |-> log,
        resp |-> HttpError(rs, "bad request", StatusBadRequest)]
  ELSE [req |-> [r EXCEPT !.pc = "fetching", !.full = full, !.depth = @ + 1,
                          !.sent = @ + 1],
        fetches |-> Append(log, GetObjectInput(BucketOf(full), KeyOf(full), r.hdr)),
        resp |-> rs]

\* One call of ProxyS3 up to its GetObject call: either 400 and return, or
\* the call is made and the handler waits for it.  r, log and rs are the
\* request, its fetch log and its ResponseWriter before the call.  The call
\* runs on a context derived from r.Context(): made after the client went
\* away, it sends nothing upstream.
ProxyS3Call(r, full, log, rs) ==
  IF InvalidPath(full)
  THEN [req |-> [r EXCEPT !.pc = "done", !.full = full, !.depth = @ + 1],
        fetches |-> log,
        resp |-> HttpError(rs, "bad request", StatusBadRequest)]
  ELSE [req |-> [r EXCEPT !.pc = "fetching", !.full = full, !.depth = @ + 1,
                          !.sent = IF r.canceled THEN @ ELSE @ + 1],
        fetches |-> Append(log, GetObjectInput(BucketOf(full), KeyOf(full), r.hdr)),
        resp |-> rs]

spaPath_UnderData(c) == JoinPath(c.BucketPathPrefix, StrData \o c.SPAEntrypointPath)

\* The SPA entry object path.
spaPath(c) == JoinPath(c.BucketPathPrefix, c.SPAEntrypointPath)

\* The guard of the SPA fallback.
FallbackGuard_NoPathCheck(c, status, full) ==
  /\ status = StatusNotFound \/ status = StatusForbidden
  /\ c.SPAEntrypointPath # EmptyStr

FallbackGuard_OnlyNotFound(c, status, full) ==
  /\ status = StatusNotFound
  /\ c.SPAEntrypointPath # EmptyStr
  /\ full # spaPath(c)

FallbackGuard_ComparesEntryPath(c, status, full) ==
  /\ status = StatusNotFound \/ status = StatusForbidden
  /\ c.SPAEntrypointPath # EmptyStr
  /\ full # c.SPAEntrypointPath

FallbackGuard_AnyFailure(c, status, full) ==
  /\ c.SPAEntrypointPath # EmptyStr
  /\ full # spaPath(c)

FallbackGuard(c, status, full) ==
  /\ status = StatusNotFound \/ status = StatusForbidden
  /\ c.SPAEntrypointPath # EmptyStr
  /\ full # spaPath(c)

\* The response head written for a fetched object.
ObjectHead(rs, obj) ==
  LET h0 == SetHeader(rs, "Vary", "Accept-Encoding")
      h1 == setHeaderFromStringPtr(h0, "Content-Type", obj.ContentType)
      h2 == setHeaderFromStringPtr(h1, "ETag", obj.ETag)
      h3 == setHeaderFromStringPtr(h2, "Cache-Control", obj.CacheControl)
      h4 == setHeaderFromStringPtr(h3, "Content-Encoding", obj.ContentEncoding)
      h5 == setHeaderFromStringPtr(h4, "Content-Disposition", obj.ContentDisposition)
      h6 == setHeaderFromStringPtr(h5, "Content-Language", obj.ContentLanguage)
      h7 == setHeaderFromStringPtr(h6, "Expires", obj.ExpiresString)
      h8 == setHeaderFromStringPtr(h7, "Accept-Ranges", obj.AcceptRanges)
      h9 == IF obj.ContentLength # <<>>
            THEN SetHeader(h8, "Content-Length", ToString(obj.ContentLength[1]))
            ELSE h8
      h10 == IF obj.LastModified # <<>>
             THEN SetHeader(h9, "Last-Modified", FormatHTTPTime(obj.LastModified[1]))
             ELSE h9
  IN  WriteHeader(h10, StatusOK)

(***************************************************************************)
(* Actions.  One request is served at a time here; Close ends a finished   *)
(* request and frees its slot.                                             *)
(***************************************************************************)
OthersIdle(i) == \A j \in Reqs \ {i} : req[j].pc = "idle"

\* What the router and the matched handler do with a request, up to the
\* handler's return or its GetObject call.
Dispatch(r, c) ==
  LET handler == FindRoute(r.method, URLFormat(r.path))
      r1 == [r EXCEPT !.handler = handler]
  IN  CASE handler = "healthz" ->
             [req |-> [r1 EXCEPT !.pc = "done"],
              fetches |-> <<>>,
              resp |-> Write(WriteHeader(NoResp, StatusOK), "OK")]
        [] handler = "methodNotAllowed" ->
             [req |-> [r1 EXCEPT !.pc = "done"],
              fetches |-> <<>>,
              resp |-> HttpError(SetHeader(NoResp, "Allow", "GET, HEAD"),
                                 StatusText(StatusMethodNotAllowed),
                                 StatusMethodNotAllowed)]
        [] handler = "notFound" ->
             [req |-> [r1 EXCEPT !.pc = "done"],
              fetches |-> <<>>,
              resp |-> HttpError(NoResp, "404 page not found", StatusNotFound)]
        [] OTHER ->
             LET full == ResolveFull(handler, c.BucketPathPrefix, r.path)
             IN  ProxyS3Call([r1 EXCEPT !.full0 = full], full, <<>>, NoResp)

\* The server hands a request to the router, whatever its other requests
\* are doing.
ServeHTTP(i, method, path, hdr) ==
  /\ req[i].pc = "idle"
  /\ FromEnvPossible(cfg)
  /\ LET r == [IdleReq EXCEPT !.via = "router", !.method = method,
                              !.path = path, !.hdr = hdr]
         d == Dispatch(r, cfg)
     IN  /\ req' = [req EXCEPT ![i] = d.req]
         /\ fetches' = [fetches EXCEPT ![i] = d.fetches]
         /\ resp' = [resp EXCEPT ![i] = d.resp]
  /\ UNCHANGED <<cfg, joined, results, streams>>

\* A request arrives at the server main runs, no other being in flight.
Serve(i, method, path, hdr) == OthersIdle(i) /\ ServeHTTP(i, method, path, hdr)

\* ProxyS3 is called with an object path of the caller's choice.
CallProxyS3(i, method, hdr, full) ==
  /\ req[i].pc = "idle"
  /\ OthersIdle(i)
  /\ LET r == [IdleReq EXCEPT !.via = "direct", !.method = method,
                              !.hdr = hdr, !.full0 = full]
         d == ProxyS3Call(r, full, <<>>, NoResp)
     IN  /\ req' = [req EXCEPT ![i] = d.req]
         /\ fetches' = [fetches EXCEPT ![i] = d.fetches]
         /\ resp' = [resp EXCEPT ![i] = d.resp]
  /\ UNCHANGED <<cfg, joined, results, streams>>

GetObjectFails_WritesBeforeFallback(i, out) ==
  /\ req[i].pc = "fetching"
  /\ out.err # <<>>
  /\ results' = [results EXCEPT ![i] = Append(@, out)]
  /\ LET status == s3ErrorToStatus(out.err)
         failed == HttpError(resp[i], StatusText(status), status)
     IN  IF FallbackGuard(cfg, status, req[i].full)
         THEN LET d == ProxyS3Call(req[i], spaPath(cfg), fetches[i], failed)
              IN  /\ req' = [req EXCEPT ![i] = d.req]
                  /\ fetches' = [fetches EXCEPT ![i] = d.fetches]
                  /\ resp' = [resp EXCEPT ![i] = d.resp]
         ELSE /\ req' = [req EXCEPT ![i].pc = "done"]
              /\ resp' = [resp EXCEPT ![i] = failed]
              /\ UNCHANGED fetches
  /\ UNCHANGED <<cfg, joined, streams>>

GetObjectFails_ReportsOriginal(i, out) ==
  /\ req[i].pc = "fetching"
  /\ out.err # <<>>
  /\ results' = [results EXCEPT ![i] = Append(@, out)]
  /\ LET status == s3ErrorToStatus(out.err)
         original == IF results[i] = <<>> THEN status
                     ELSE s3ErrorToStatus(results[i][1].err)
     IN  IF FallbackGuard(cfg, status, req[i].full)
         THEN LET d == ProxyS3Call(req[i], spaPath(cfg), fetches[i], resp[i])
              IN  /\ req' = [req EXCEPT ![i] = d.req]
                  /\ fetches' = [fetches EXCEPT ![i] = d.fetches]
                  /\ resp' = [resp EXCEPT ![i] = d.resp]
         ELSE /\ req' = [req EXCEPT ![i].pc = "done"]
              /\ resp' = [resp EXCEPT ![i] = HttpError(@, StatusText(original), original)]
              /\ UNCHANGED fetches
  /\ UNCHANGED <<cfg, joined, streams>>

\* The pending GetObject call returns an error.
GetObjectFails(i, out) ==
  /\ req[i].pc = "fetching"
  /\ out.err # <<>>
  /\ results' = [results EXCEPT ![i] = Append(@, out)]
  /\ LET status == s3ErrorToStatus(out.err)
     IN  IF FallbackGuard(cfg, status, req[i].full)
         THEN LET d == ProxyS3Call(req[i], spaPath(cfg), fetches[i], resp[i])
              IN  /\ req' = [req EXCEPT ![i] = d.req]
                  /\ fetches' = [fetches EXCEPT ![i] = d.fetches]
                  /\ resp' = [resp EXCEPT ![i] = d.resp]
         ELSE /\ req' = [req EXCEPT ![i].pc = "done"]
              /\ resp' = [resp EXCEPT ![i] =
                            Recoverer(req[i], HttpError(@, StatusText(status), status))]
              /\ UNCHANGED fetches
  /\ UNCHANGED <<cfg, joined, streams>>

GetObjectSucceeds_AlwaysCopies(i, out) ==
  /\ req[i].pc = "fetching"
  /\ out.err = <<>>
  /\ results' = [results EXCEPT ![i] = Append(@, out)]
  /\ resp' = [resp EXCEPT ![i] = ObjectHead(@, out.obj)]
  /\ req' = [req EXCEPT ![i].pc = "copying", ![i].obj = out.obj]
  /\ streams' = [streams EXCEPT ![i].opened = @ + 1]
  /\ UNCHANGED <<cfg, joined, fetches>>

\* The pending GetObject call returns an object: the head is written and,
\* unless the method is HEAD, the body copy starts.
GetObjectSucceeds(i, out) ==
  /\ req[i].pc = "fetching"
  /\ out.err = <<>>
  /\ results' = [results EXCEPT ![i] = Append(@, out)]
  /\ resp' = [resp EXCEPT ![i] = ObjectHead(@, out.obj)]
  /\ IF req[i].method # "HEAD"
     THEN /\ req' = [req EXCEPT ![i].pc = "copying", ![i].obj = out.obj]
          /\ streams' = [streams EXCEPT ![i].opened = @ + 1]
     ELSE /\ req' = [req EXCEPT ![i].pc = "done", ![i].obj = out.obj]
          /\ streams' = [streams EXCEPT ![i].opened = @ + 1, ![i].closed = @ + 1]
  /\ UNCHANGED <<cfg, joined, fetches>>

Copied(i) == Len(resp[i].body)

\* io.Copy moves the next chunk of the body to the client.
CopyChunk(i) ==
  /\ req[i].pc = "copying"
  /\ Copied(i) < Len(req[i].obj.Body)
  /\ resp' = [resp EXCEPT ![i] = Write(@, req[i].obj.Body[Copied(i) + 1])]
  /\ UNCHANGED <<cfg, joined, req, fetches, results, streams>>

CopyReturns_LeaksOnAbort(i) ==
  /\ req[i].pc = "copying"
  /\ req' = [req EXCEPT ![i].pc = "done"]
  /\ resp' = [resp EXCEPT ![i].aborted = Copied(i) < Len(req[i].obj.Body)]
  /\ streams' = [streams EXCEPT ![i].closed =
                   IF Copied(i) < Len(req[i].obj.Body) THEN @ ELSE @ + 1]
  /\ UNCHANGED <<cfg, joined, fetches, results>>

\* io.Copy returns, at the end of the body or earlier on a failed write (the
\* client is gone; the error is dropped); the deferred Body.Close runs and
\* the handler returns.
CopyReturns(i) ==
  /\ req[i].pc = "copying"
  /\ req' = [req EXCEPT ![i].pc = "done"]
  /\ resp' = [resp EXCEPT ![i].aborted = Copied(i) < Len(req[i].obj.Body)]
  /\ streams' = [streams EXCEPT ![i].closed = @ + 1]
  /\ UNCHANGED <<cfg, joined, fetches, results>>

Close_ResetsAll(i) ==
  /\ req[i].pc = "done"
  /\ req' = [j \in Reqs |-> IdleReq]
  /\ fetches' = [j \in Reqs |-> <<>>]
  /\ results' = [j \in Reqs |-> <<>>]
  /\ resp' = [j \in Reqs |-> NoResp]
  /\ streams' = [j \in Reqs |-> NoStreams]
  /\ UNCHANGED <<cfg, joined>>

\* The finished request leaves the server.
Close(i) ==
  /\ req[i].pc = "done"
  /\ req' = [req EXCEPT ![i] = IdleReq]
  /\ fetches' = [fetches EXCEPT ![i] = <<>>]
  /\ results' = [results EXCEPT ![i] = <<>>]
  /\ resp' = [resp EXCEPT ![i] = NoResp]
  /\ streams' = [streams EXCEPT ![i] = NoStreams]
  /\ UNCHANGED <<cfg, joined>>

Next ==
  \E i \in Reqs :
    \/ \E m \in Methods, p \in RequestPaths, h \in HeaderSamples : Serve(i, m, p, h)
    \/ \E m \in {"GET", "HEAD"}, h \in HeaderSamples, f \in DirectFulls :
         CallProxyS3(i, m, h, f)
    \/ \E out \in Outcomes : GetObjectFails(i, out)
    \/ \E out \in Outcomes : GetObjectSucceeds(i, out)
    \/ CopyChunk(i)
    \/ CopyReturns(i)
    \/ Close(i)

Spec == Init /\ [][Next]_vars

\* Every GetObject call returns (the call is bounded by the request's
\* timeout) and io.Copy returns (the body ends or a write fails).
GetObjectReturns(i) ==
  \E out \in Outcomes : GetObjectFails(i, out) \/ GetObjectSucceeds(i, out)

FairSpec ==
  Spec /\ \A i \in Reqs : WF_vars(GetObjectReturns(i)) /\ WF_vars(CopyReturns(i))

(***************************************************************************)
(* The server with requests in flight at the same time: each connection    *)
(* has its own goroutine, and the handlers' steps interleave freely.       *)
(***************************************************************************)
DefaultConfig ==
  cfg = [BucketPathPrefix |-> PrefixDefault, SPAEntrypointPath |-> SpaDefault]

ConcurrentMethods == {"GET", "HEAD"}

ConcurrentPaths == {PathUnknown}

ConcurrentHeaders == {h \in HeaderSamples : h.Range = ""}

ConcurrentOutcomes ==
  { [err |-> <<ErrAPI("NoSuchKey")>>, obj |-> NilObj],
    [err |-> <<>>, obj |-> ObjSpa] }

InitConcurrent == Init /\ DefaultConfig

NextConcurrent ==
  \E i \in Reqs :
    \/ \E m \in ConcurrentMethods, p \in ConcurrentPaths, h \in ConcurrentHeaders :
         ServeHTTP(i, m, p, h)
    \/ \E out \in ConcurrentOutcomes : GetObjectFails(i, out)
    \/ \E out \in ConcurrentOutcomes : GetObjectSucceeds(i, out)
    \/ CopyChunk(i)
    \/ CopyReturns(i)
    \/ Close(i)

SpecConcurrent == InitConcurrent /\ [][NextConcurrent]_vars

(***************************************************************************)
(* The client going away.  ProxyS3 derives the context of its GetObject    *)
(* call from r.Context(), which is done once the client has disconnected   *)
(* or cancelled; ProxyS3 itself never looks at the context, it learns of   *)
(* the cancellation from what GetObject returns.  The failures here are    *)
(* shaped as the S3 client returns them: an OperationError around a        *)
(* ResponseError, whose Response has StatusCode 0 when no response came.   *)
(***************************************************************************)
\* The call was cancelled before a response arrived.
SdkCanceled == <<ErrOp, ErrResp(0), ErrCanceled>>

\* The context was found done before the request was handed to the
\* transport.
BareCanceled == <<ErrOp, ErrCanceled>>

\* The request could not be sent: connection refused, no such host.
SdkSendFailed == <<ErrOp, ErrResp(0), ErrPlain>>

CanceledChains == {SdkCanceled, BareCanceled}

SdkNoSuchKey == <<ErrOp, ErrResp(404), ErrAPI("NoSuchKey")>>

SdkAccessDenied == <<ErrOp, ErrResp(403), ErrAPI("AccessDenied")>>

\* What a GetObject call returns whose context stays live.
LiveOutcomes ==
  {[err |-> e, obj |-> NilObj] : e \in {SdkNoSuchKey, SdkAccessDenied, SdkSendFailed}}
    \cup {[err |-> <<>>, obj |-> ObjSpa]}

CanceledOutcomes == {[err |-> e, obj |-> NilObj] : e \in CanceledChains}

\* What the pending GetObject call of request r can return.  Called on a
\* context already done, it fails with the cancellation; cancelled while in
\* flight, it fails with the cancellation unless its outcome was there
\* already.
PossibleOutcomes(r, log) ==
  IF ~r.canceled THEN LiveOutcomes
  ELSE IF r.sent < Len(log) THEN CanceledOutcomes
  ELSE CanceledOutcomes \cup LiveOutcomes

\* The client disconnects or cancels while ProxyS3 runs.
ClientCancels(i) ==
  /\ req[i].pc \in {"fetching", "copying"}
  /\ ~req[i].canceled
  /\ req' = [req EXCEPT ![i].canceled = TRUE]
  /\ UNCHANGED <<cfg, joined, fetches, results, resp, streams>>

InitCancel == Init /\ DefaultConfig

NextCancel ==
  \E i \in Reqs :
    \/ \E m \in {"GET", "HEAD"} : Serve(i, m, PathUnknown, NoHeaders)
    \/ \E f \in {FullBucketKey, spaPath(cfg)} :
         CallProxyS3(i, "GET", NoHeaders, f)
    \/ ClientCancels(i)
    \/ \E out \in PossibleOutcomes(req[i], fetches[i]) : GetObjectFails(i, out)
    \/ \E out \in PossibleOutcomes(req[i], fetches[i]) : GetObjectSucceeds(i, out)
    \/ CopyChunk(i)
    \/ CopyReturns(i)
    \/ Close(i)

SpecCancel == InitCancel /\ [][NextCancel]_vars

GetObjectReturnsCancel(i) ==
  \E out \in PossibleOutcomes(req[i], fetches[i]) :
    GetObjectFails(i, out) \/ GetObjectSucceeds(i, out)

FairSpecCancel ==
  SpecCancel
    /\ \A i \in Reqs : WF_vars(GetObjectReturnsCancel(i)) /\ WF_vars(CopyReturns(i))

(***************************************************************************)
(* JoinPath on its own: it is called with two strings, as the package's    *)
(* test calls it.                                                          *)
(***************************************************************************)
MaxJoinLen == 3

JoinAlphabet == {"/", "p"}

JoinPathSlash == \* "/path/"
  <<"/", "p", "a", "t", "h", "/">>
JoinPathNoSlash == \* "/path"
  <<"/", "p", "a", "t", "h">>
JoinSlashToFile == \* "/to/file"
  <<"/", "t", "o", "/", "f", "i", "l", "e">>
JoinToFile == \* "to/file"
  <<"t", "o", "/", "f", "i", "l", "e">>

JoinStrings ==
  UNION {[1..n -> JoinAlphabet] : n \in 0..MaxJoinLen}
    \cup {JoinPathSlash, JoinPathNoSlash, JoinSlashToFile, JoinToFile}

JoinPathCall(a, b) ==
  /\ joined' = <<[a |-> a, b |-> b, out |-> JoinPath(a, b)]>>
  /\ UNCHANGED <<cfg, req, fetches, results, resp, streams>>

NextJoin == \E a \in JoinStrings, b \in JoinStrings : JoinPathCall(a, b)

InitJoin == Init /\ cfg = [BucketPathPrefix |-> EmptyStr, SPAEntrypointPath |-> EmptyStr]

SpecJoin == InitJoin /\ [][NextJoin]_vars

(***************************************************************************)
(* The status translation on its own: ProxyS3 is called as the package's   *)
(* tests call it and GetObject fails with each error chain the translation *)
(* can tell apart.                                                         *)
(***************************************************************************)
\* The error codes s3ErrorToStatus names, and some it does not.
ApiCodes ==
  { "NoSuchBucket", "NoSuchKey", "NotFound", "NoSuchVersion",
    "AccessDenied", "Forbidden", "SignatureDoesNotMatch", "InvalidAccessKeyId",
    "ExpiredToken", "RequestTimeTooSkewed", "InvalidObjectState",
    "PreconditionFailed", "InvalidRange",
    "AuthorizationHeaderMalformed", "InvalidRequest", "InvalidArgument",
    "MalformedXML", "RequestTimeout", "SlowDown", "ServiceUnavailable",
    "InternalError", "NotModified", "HTTPError", "" }

\* Status codes of the upstream HTTP response a ResponseError carries.
RespStatuses == {304, 400, 403, 404, 503, 504}

\* The innermost error of a chain.
ErrLeaves == {ErrAPI(c) : c \in ApiCodes} \cup {ErrPlain, ErrDeadline}

ErrChains ==
  {<<l>> : l \in ErrLeaves}
    \cup {<<ErrOp, l>> : l \in ErrLeaves}
    \cup {<<ErrOp, ErrResp(n), l>> : n \in RespStatuses, l \in ErrLeaves}
    \cup {<<ErrOp, ErrRespNil, l>> : l \in ErrLeaves}
    \cup {<<ErrOp>>}

ErrOutcomes == {[err |-> e, obj |-> NilObj] : e \in ErrChains}

TranslateConfigs ==
  { [BucketPathPrefix |-> EmptyStr, SPAEntrypointPath |-> EmptyStr],
    [BucketPathPrefix |-> PrefixDefault, SPAEntrypointPath |-> SpaDefault] }

InitTranslate == Init /\ cfg \in TranslateConfigs

NextTranslate ==
  \/ CallProxyS3(1, "GET", NoHeaders, FullBucketKey)
  \/ \E out \in ErrOutcomes : GetObjectFails(1, out)

SpecTranslate == InitTranslate /\ [][NextTranslate]_vars

(***************************************************************************)
(* Properties.                                                             *)
(***************************************************************************)
Routed(i) == req[i].via = "router"

Done(i) == req[i].pc = "done"

\* The first GetObject call of request i has returned an error.
FirstFailed(i) == Len(results[i]) >= 1 /\ results[i][1].err # <<>>

FirstStatus(i) == s3ErrorToStatus(results[i][1].err)

\* The prefix as it stands in front of a joined path: one trailing "/" of
\* the configured prefix merges with the leading "/" of what follows.
PrefixPart(c) ==
  IF HasSuffix(c.BucketPathPrefix, Slash)
  THEN Slice(c.BucketPathPrefix, 0, Len(c.BucketPathPrefix) - 1)
  ELSE c.BucketPathPrefix

Unconditional(in) ==
  /\ in.Range = <<>>
  /\ in.IfNoneMatch = <<>>
  /\ in.IfMatch = <<>>
  /\ in.IfModifiedSince = <<>>
  /\ in.IfUnmodifiedSince = <<>>

\* C1: a request never causes more than two GetObject calls (the original
\* one and at most one fallback), whatever the calls return; ProxyS3 is never
\* entered a third time.
C1_AtMostTwoFetches ==
  \A i \in Reqs : Len(fetches[i]) <= 2 /\ req[i].depth <= 2

\* C1 witness: the SPA entry object itself failed with 404 or 403 after the
\* original fetch had, and the request ended after those two fetches.
C1_Witness ==
  \E i \in Reqs :
    /\ Done(i)
    /\ Len(fetches[i]) = 2
    /\ Len(results[i]) = 2
    /\ results[i][2].err # <<>>
    /\ s3ErrorToStatus(results[i][2].err) \in {StatusNotFound, StatusForbidden}

C3_FallbackUnconditional ==
  \A i \in Reqs : Len(fetches[i]) >= 2 => Unconditional(fetches[i][2])

C5_DirectSpaRequestOneFetch ==
  \A i \in Reqs :
    ( /\ DefaultConfig
      /\ Routed(i)
      /\ req[i].method = "GET"
      /\ req[i].path = PathSpaDirect
      /\ FirstFailed(i)
      /\ FirstStatus(i) = StatusNotFound )
    => /\ Len(fetches[i]) = 1
       /\ Done(i)
       /\ resp[i].status = StatusNotFound

\* C5 amended: whenever the object path ProxyS3 is given equals the SPA entry
\* object path (the prefix joined with the SPA entry path) and that object
\* is missing, exactly one fetch is made, no fallback, and the answer is 404.
C5_SpaObjectMissingOneFetch ==
  \A i \in Reqs :
    ( /\ cfg.SPAEntrypointPath # EmptyStr
      /\ req[i].full0 = JoinPath(cfg.BucketPathPrefix, cfg.SPAEntrypointPath)
      /\ FirstFailed(i)
      /\ FirstStatus(i) = StatusNotFound )
    => /\ Len(fetches[i]) = 1
       /\ req[i].depth = 1
       /\ Done(i)
       /\ resp[i].status = StatusNotFound
       /\ resp[i].writes = 1

\* C5 witness: a routed GET resolved to the SPA entry object path itself
\* (GET /index.html with SPA entry path /data/index.html) and got 404.
C5_Witness ==
  \E i \in Reqs :
    /\ Routed(i)
    /\ req[i].method = "GET"
    /\ req[i].path = PathIndex
    /\ req[i].full0 = ObjSpaUnderData
    /\ req[i].full0 = JoinPath(cfg.BucketPathPrefix, cfg.SPAEntrypointPath)
    /\ FirstFailed(i)
    /\ FirstStatus(i) = StatusNotFound
    /\ Done(i)

\* C6 as stated: a GET for /apps/<app>/<rest> resolves to <prefix>/data/<rest>
\* without the app segment; /apps/chrome/navigation.json with prefix
\* /frontend-assets resolves to /frontend-assets/data/navigation.json.
C6_AppSegmentDropped ==
  \A i \in Reqs :
    ( /\ Routed(i)
      /\ req[i].method = "GET"
      /\ req[i].path = PathAppsNav
      /\ cfg.BucketPathPrefix = PrefixDefault )
    => req[i].full0 = ObjNavNoApp

\* C6 amended: a GET for /apps/<rest> resolves to <prefix>/data/<rest>: only
\* /apps is removed and the app segment stays, so /apps/chrome/navigation.json
\* resolves to /frontend-assets/data/chrome/navigation.json; a successful
\* fetch with content type application/json gives 200 with
\* Content-Type: application/json.
C6_AppsPrefixDropped ==
  \A i \in Reqs :
    ( /\ Routed(i)
      /\ req[i].method = "GET"
      /\ HasPrefix(req[i].path, PatApps) )
    => /\ req[i].handler = "apps"
       /\ req[i].full0 = PrefixPart(cfg) \o StrData \o SliceFrom(req[i].path, Len(StrApps))
       /\ (req[i].path = PathAppsNav /\ cfg.BucketPathPrefix = PrefixDefault) =>
            req[i].full0 = ObjNavWithApp
       /\ ( /\ Len(results[i]) = 1
            /\ results[i][1].err = <<>>
            /\ results[i][1].obj.ContentType = <<"application/json">> ) =>
            /\ resp[i].status = StatusOK
            /\ resp[i].header["Content-Type"] = <<"application/json">>

\* C6 witness: GET /apps/chrome/navigation.json fetched a JSON object.
C6_Witness ==
  \E i \in Reqs :
    /\ Routed(i)
    /\ req[i].method = "GET"
    /\ req[i].path = PathAppsNav
    /\ cfg.BucketPathPrefix = PrefixDefault
    /\ Len(results[i]) = 1
    /\ results[i][1].obj = ObjJson
    /\ Done(i)

\* C7 as stated: a GET under /manifests/ resolves to <prefix><path> with no
\* /data, and a GET whose path is neither /healthz nor under /manifests/ nor
\* under /apps/ is proxied to <prefix>/data<path>.
C7_RouteTable ==
  \A i \in Reqs :
    (Routed(i) /\ req[i].method = "GET") =>
      /\ HasPrefix(req[i].path, PatManifests) =>
           /\ req[i].depth >= 1
           /\ req[i].full0 = PrefixPart(cfg) \o req[i].path
      /\ ( /\ req[i].path # PatHealthz
           /\ ~HasPrefix(req[i].path, PatManifests)
           /\ ~HasPrefix(req[i].path, PatApps) ) =>
           /\ req[i].depth >= 1
           /\ req[i].full0 = PrefixPart(cfg) \o StrData \o req[i].path

\* C8: every routed HEAD request, whatever its path, is proxied to
\* <prefix>/data<path>.
C8_HeadUnderData ==
  \A i \in Reqs :
    (Routed(i) /\ req[i].method = "HEAD") =>
      /\ req[i].handler = "head"
      /\ req[i].depth >= 1
      /\ req[i].full0 = PrefixPart(cfg) \o StrData \o req[i].path

\* C8 witness: a HEAD for a path under /manifests/ is being fetched.
C8_Witness ==
  \E i \in Reqs :
    /\ Routed(i)
    /\ req[i].method = "HEAD"
    /\ req[i].path = PathManifest
    /\ req[i].pc = "fetching"
    /\ cfg.BucketPathPrefix = PrefixDefault
    /\ fetches[i][1].Key = KeyManifestUnderData

\* C9 as stated: GET /healthz and HEAD /healthz are answered 200 (GET with
\* body "OK") without any upstream fetch.
C9_HealthzNeverFetches ==
  \A i \in Reqs :
    ( /\ Routed(i)
      /\ req[i].path = PatHealthz
      /\ req[i].method \in {"GET", "HEAD"} )
    => /\ Len(fetches[i]) = 0
       /\ Done(i)
       /\ resp[i].status = StatusOK
       /\ req[i].method = "GET" => resp[i].body = <<"OK">>

\* C10: a routed request whose method is neither GET nor HEAD is answered
\* 405 with Allow: GET, HEAD, and no upstream fetch is made for it.
C10_OtherMethods405 ==
  \A i \in Reqs :
    (Routed(i) /\ req[i].method \notin {"GET", "HEAD"}) =>
      /\ Done(i)
      /\ resp[i].status = StatusMethodNotAllowed
      /\ resp[i].writes = 1
      /\ resp[i].header["Allow"] = <<"GET, HEAD">>
      /\ Len(fetches[i]) = 0
      /\ req[i].depth = 0

\* C10 witness: a POST for a path under /manifests/ was answered 405.
C10_Witness ==
  \E i \in Reqs :
    /\ Routed(i)
    /\ req[i].method = "POST"
    /\ req[i].path = PathManifest
    /\ resp[i].status = StatusMethodNotAllowed

\* The object path with one leading "/" removed, and the positions of its
\* "/" characters.
Stripped(full) ==
  IF Len(full) >= 1 /\ full[1] = "/" THEN SubSeq(full, 2, Len(full)) ELSE full

SlashPositions(p) == {k \in 1..Len(p) : p[k] = "/"}

\* No "/" at all, a "/" in front (empty bucket), or nothing after the first
\* "/" (empty key).
Undecomposable(full) ==
  LET p == Stripped(full)
      sl == SlashPositions(p)
  IN  \/ sl = {}
      \/ 1 \in sl
      \/ \A k \in 1..Len(p) : (k \in sl /\ \A j \in sl : k <= j) => k = Len(p)

\* C11: an object path that, one leading "/" removed, has no "/", starts with
\* "/" or has nothing after its first "/" is answered 400 "bad request" by
\* ProxyS3 with no GetObject call and no fallback; for every other path the
\* bucket and key of every GetObject call are non-empty.
C11_InvalidPathRejected ==
  \A i \in Reqs :
    req[i].depth >= 1 =>
      /\ Undecomposable(req[i].full0) =>
           /\ Done(i)
           /\ resp[i].status = StatusBadRequest
           /\ resp[i].writes = 1
           /\ resp[i].body = <<"bad request" \o "\n">>
           /\ fetches[i] = <<>>
           /\ results[i] = <<>>
           /\ req[i].depth = 1
      /\ ~Undecomposable(req[i].full0) =>
           /\ Len(fetches[i]) >= 1
           /\ \A k \in 1..Len(fetches[i]) :
                fetches[i][k].Bucket # EmptyStr /\ fetches[i][k].Key # EmptyStr

\* C11 witness: ProxyS3 called with "", "/nobucket", "/bucket/" or "//key"
\* answered 400.
C11_Witness ==
  \E i \in Reqs :
    /\ req[i].full0 \in {FullOnlyBucket, FullNoBucket, FullEmptyBucket, EmptyStr}
    /\ req[i].via = "direct"
    /\ Done(i)
    /\ resp[i].status = StatusBadRequest

\* The error the k-th GetObject call of request i returned, and whether the
\* response of request i was written from it: it is the last call, made by
\* the last entry of ProxyS3, and the request is over.
ErrOf(i, k) == results[i][k].err

FinalFailure(i, k) ==
  /\ k = Len(results[i])
  /\ ErrOf(i, k) # <<>>
  /\ Len(fetches[i]) = k
  /\ req[i].depth = k
  /\ Done(i)

Timeout(err) == HasKind(err, "deadline")

\* The upstream HTTP response a failure carries, if any.
CarriesResponse(err) ==
  \E k \in 1..Len(err) : err[k].kind = "resp" /\ err[k].status > 0

ResponseStatus(err) ==
  err[CHOOSE k \in 1..Len(err) :
        /\ err[k].kind = "resp"
        /\ \A j \in 1..(k - 1) : err[j].kind # "resp"].status

HasCode(err) == \E k \in 1..Len(err) : err[k].kind = "api"

CodeOf(err) == err[CHOOSE k \in 1..Len(err) : err[k].kind = "api"].code

\* The table of the status translation, as listed: 0 for a code not listed.
ListedStatus(code) ==
  CASE code \in {"NoSuchBucket", "NoSuchKey", "NotFound", "NoSuchVersion"} -> 404
    [] code \in {"AccessDenied", "Forbidden", "SignatureDoesNotMatch",
                 "InvalidAccessKeyId", "ExpiredToken", "RequestTimeTooSkewed"} -> 403
    [] code = "PreconditionFailed" -> 412
    [] code = "InvalidRange" -> 416
    [] code \in {"AuthorizationHeaderMalformed", "InvalidRequest",
                 "InvalidArgument", "MalformedXML"} -> 400
    [] code = "RequestTimeout" -> 408
    [] code \in {"SlowDown", "ServiceUnavailable"} -> 503
    [] code = "InternalError" -> 500
    [] OTHER -> 0

\* C12 as stated: a failure that exceeded the deadline translates to 504
\* whatever else it carries, and any other failure with a listed error code
\* translates to the listed status of that code; a final failure is answered
\* with that status.
C12_TableByCode ==
  \A i \in Reqs : \A k \in 1..Len(results[i]) :
    LET err == ErrOf(i, k)
        want == IF Timeout(err) THEN 504 ELSE ListedStatus(CodeOf(err))
    IN  (err # <<>> /\ (Timeout(err) \/ (HasCode(err) /\ ListedStatus(CodeOf(err)) # 0))) =>
          /\ s3ErrorToStatus(err) = want
          /\ FinalFailure(i, k) => resp[i].status = want

\* C12 amended: deadline exceeded translates to 504 before anything else;
\* otherwise a failure that carries an upstream HTTP response translates to
\* that response's status code whatever its error code; otherwise a listed
\* error code translates to its listed status (and InvalidObjectState to
\* 403); a final failure is answered with that status.
C12_ResponseStatusThenTable ==
  \A i \in Reqs : \A k \in 1..Len(results[i]) :
    LET err == ErrOf(i, k)
        listed == IF CodeOf(err) = "InvalidObjectState" THEN 403
                  ELSE ListedStatus(CodeOf(err))
        want == IF Timeout(err) THEN 504
                ELSE IF CarriesResponse(err) THEN ResponseStatus(err)
                ELSE listed
    IN  (err # <<>> /\ (Timeout(err) \/ CarriesResponse(err)
                          \/ (HasCode(err) /\ listed # 0))) =>
          /\ s3ErrorToStatus(err) = want
          /\ FinalFailure(i, k) => resp[i].status = want

\* C12 witness: a RequestTimeout error that came with an upstream 400
\* response was answered 400.
C12_Witness ==
  \E i \in Reqs :
    /\ FinalFailure(i, 1)
    /\ ErrOf(i, 1) = <<ErrOp, ErrResp(400), ErrAPI("RequestTimeout")>>
    /\ resp[i].status = 400

FailureStatuses == {400, 403, 404, 408, 412, 416, 500, 502, 503, 504}

\* The failure falls in none of the listed categories.
Unlisted(err) ==
  /\ ~Timeout(err)
  /\ HasCode(err) => (ListedStatus(CodeOf(err)) = 0 /\ CodeOf(err) # "InvalidObjectState")

\* C13 as stated: every failure translates to one of 400, 403, 404, 408, 412,
\* 416, 500, 502, 503, 504, and a failure in none of the listed categories
\* (unknown code, plain error, any other upstream response) translates to 502.
C13_TenStatuses ==
  \A i \in Reqs : \A k \in 1..Len(results[i]) :
    LET err == ErrOf(i, k)
    IN  err # <<>> =>
          /\ s3ErrorToStatus(err) \in FailureStatuses
          /\ Unlisted(err) => s3ErrorToStatus(err) = 502
          /\ FinalFailure(i, k) => resp[i].status \in FailureStatuses

\* C13 amended: the translation depends on the failure alone; a failure that
\* carries no upstream HTTP response translates to one of the ten statuses,
\* and to 502 when it is in none of the listed categories; a failure that
\* did not exceed the deadline and carries an upstream HTTP response
\* translates to that response's status code, whatever it is.
C13_TenStatusesUnlessResponse ==
  \A i \in Reqs : \A k \in 1..Len(results[i]) :
    LET err == ErrOf(i, k)
    IN  err # <<>> =>
          /\ ~CarriesResponse(err) =>
               /\ s3ErrorToStatus(err) \in FailureStatuses
               /\ Unlisted(err) => s3ErrorToStatus(err) = 502
               /\ FinalFailure(i, k) =>
                    /\ resp[i].status \in FailureStatuses
                    /\ Unlisted(err) => resp[i].status = 502
          /\ (CarriesResponse(err) /\ ~Timeout(err)) =>
               /\ s3ErrorToStatus(err) = ResponseStatus(err)
               /\ FinalFailure(i, k) => resp[i].status = ResponseStatus(err)
          /\ (k = 2 /\ err = ErrOf(i, 1) /\ FinalFailure(i, k)) =>
               resp[i].status \in {StatusForbidden, StatusNotFound}

\* C13 witness: an error with an unknown code and no upstream response was
\* answered 502.
C13_Witness ==
  \E i \in Reqs :
    /\ FinalFailure(i, 1)
    /\ ErrOf(i, 1) = <<ErrAPI("HTTPError")>>
    /\ resp[i].status = 502

\* C14 as stated: a fetch, first or fallback, that exceeds its deadline ends
\* the request with 504 and no further fetch, and no other failure is
\* answered 504.
C14_TimeoutIs504Only ==
  \A i \in Reqs : \A k \in 1..Len(results[i]) :
    LET err == ErrOf(i, k)
    IN  err # <<>> =>
          /\ Timeout(err) =>
               /\ FinalFailure(i, k)
               /\ resp[i].status = StatusGatewayTimeout
               /\ resp[i].writes = 1
          /\ (~Timeout(err) /\ FinalFailure(i, k)) =>
               resp[i].status # StatusGatewayTimeout

\* C14 amended: as stated, except that 504 is also the answer to a failure
\* that carries an upstream HTTP response with status 504; every other
\* failure is answered with a status other than 504.
C14_TimeoutIs504NoRetry ==
  \A i \in Reqs : \A k \in 1..Len(results[i]) :
    LET err == ErrOf(i, k)
    IN  err # <<>> =>
          /\ Timeout(err) =>
               /\ FinalFailure(i, k)
               /\ resp[i].status = StatusGatewayTimeout
               /\ resp[i].writes = 1
          /\ (~Timeout(err) /\ FinalFailure(i, k)) =>
               (resp[i].status = StatusGatewayTimeout
                  <=> (CarriesResponse(err) /\ ResponseStatus(err) = 504))

\* C14 witness: the fallback fetch exceeded its deadline and the request
\* ended with 504 after those two fetches.
C14_Witness ==
  \E i \in Reqs :
    /\ Len(results[i]) = 2
    /\ ~Timeout(ErrOf(i, 1))
    /\ Timeout(ErrOf(i, 2))
    /\ Len(fetches[i]) = 2
    /\ Done(i)
    /\ resp[i].status = StatusGatewayTimeout

Fetched(i) == Len(results[i]) >= 1 /\ results[i][Len(results[i])].err = <<>>

FetchedObj(i) == results[i][Len(results[i])].obj

IsPrefix(a, b) == Len(a) <= Len(b) /\ a = SubSeq(b, 1, Len(a))

\* C16: after a successful fetch, original or fallback, the status is 200;
\* for HEAD nothing of the body is written whatever the object holds, while
\* the object's headers are set; for GET the body written is the object's
\* body, chunk by chunk, and all of it once the copy has run to its end.
C16_HeadNoBodyGetFullBody ==
  \A i \in Reqs :
    Fetched(i) =>
      /\ resp[i].status = StatusOK
      /\ resp[i].writes = 1
      /\ req[i].method = "HEAD" =>
           /\ Done(i)
           /\ resp[i].body = <<>>
           /\ resp[i].header["Content-Type"] = FetchedObj(i).ContentType
           /\ resp[i].header["ETag"] = FetchedObj(i).ETag
           /\ resp[i].header["Cache-Control"] = FetchedObj(i).CacheControl
           /\ resp[i].header["Accept-Ranges"] = FetchedObj(i).AcceptRanges
           /\ (resp[i].header["Content-Length"] # <<>>) <=> (FetchedObj(i).ContentLength # <<>>)
      /\ req[i].method = "GET" =>
           /\ IsPrefix(resp[i].body, FetchedObj(i).Body)
           /\ (Done(i) /\ ~resp[i].aborted) => resp[i].body = FetchedObj(i).Body

\* C16 witness: a HEAD request whose fallback fetch returned the SPA object
\* ended with 200, the object's Content-Type and no body.
C16_Witness ==
  \E i \in Reqs :
    /\ req[i].method = "HEAD"
    /\ Len(results[i]) = 2
    /\ Fetched(i)
    /\ FetchedObj(i) = ObjSpa
    /\ Done(i)
    /\ resp[i].status = StatusOK
    /\ resp[i].header["Content-Type"] = <<"text/html">>
    /\ resp[i].body = <<>>

\* C17: on the first fetch, Range, If-None-Match and If-Match are passed
\* with the request's value when the request has them, If-Modified-Since and
\* If-Unmodified-Since are passed as the time they denote when well formed,
\* and a header the request does not have is left unset.
C17_ConditionalHeadersPassed ==
  \A i \in Reqs :
    Len(fetches[i]) >= 1 =>
      LET in == fetches[i][1]
          h == req[i].hdr
      IN  /\ h.Range # "" => in.Range = <<h.Range>>
          /\ h.IfNoneMatch # "" => in.IfNoneMatch = <<h.IfNoneMatch>>
          /\ h.IfMatch # "" => in.IfMatch = <<h.IfMatch>>
          /\ h.IfModifiedSince = "Wed, 21 Oct 2015 07:28:00 GMT" =>
               in.IfModifiedSince = <<1445412480>>
          /\ h.IfUnmodifiedSince = "Wednesday, 21-Oct-15 07:28:00 GMT" =>
               in.IfUnmodifiedSince = <<1445412480>>
          /\ h.IfUnmodifiedSince = "Sun, 06 Nov 1994 08:49:37 GMT" =>
               in.IfUnmodifiedSince = <<784111777>>
          /\ h.Range = "" => in.Range = <<>>
          /\ h.IfNoneMatch = "" => in.IfNoneMatch = <<>>
          /\ h.IfMatch = "" => in.IfMatch = <<>>
          /\ h.IfModifiedSince = "" => in.IfModifiedSince = <<>>
          /\ h.IfUnmodifiedSince = "" => in.IfUnmodifiedSince = <<>>

\* C17 witness: a request with all five headers is being fetched with all
\* five fields set.
C17_Witness ==
  \E i \in Reqs :
    /\ Len(fetches[i]) = 1
    /\ req[i].hdr.Range = "bytes=0-100"
    /\ fetches[i][1].Range = <<"bytes=0-100">>
    /\ fetches[i][1].IfNoneMatch = <<"\"old-etag\"">>
    /\ fetches[i][1].IfMatch = <<"\"current-etag\"">>
    /\ fetches[i][1].IfModifiedSince = <<1445412480>>
    /\ fetches[i][1].IfUnmodifiedSince = <<1445412480>>

\* The number of GetObject calls of request i that returned an object.
Obtained(i) == Cardinality({k \in 1..Len(results[i]) : results[i][k].err = <<>>})

\* C18: every body stream a successful fetch returned is closed exactly once
\* by the time the request is over, after a complete GET copy, for HEAD and
\* after a copy cut short alike; it is never closed twice, and none is open
\* when the request is over.
C18_StreamClosedOnce ==
  \A i \in Reqs :
    /\ streams[i].opened = Obtained(i)
    /\ streams[i].closed <= streams[i].opened
    /\ Done(i) => streams[i].closed = streams[i].opened
    /\ req[i].pc = "copying" => (streams[i].opened = 1 /\ streams[i].closed = 0)
    /\ req[i].pc = "idle" => (streams[i].opened = 0 /\ streams[i].closed = 0)

\* C18 witness: a GET whose body copy was cut short is over with its stream
\* closed.
C18_Witness ==
  \E i \in Reqs :
    /\ Done(i)
    /\ req[i].method = "GET"
    /\ resp[i].aborted
    /\ streams[i].opened = 1
    /\ streams[i].closed = 1

\* The response headers ProxyS3 takes from the object, with the object
\* field each comes from.
OptionalHeaders ==
  { <<"Content-Type", "ContentType">>, <<"ETag", "ETag">>,
    <<"Cache-Control", "CacheControl">>,
    <<"Content-Encoding", "ContentEncoding">>,
    <<"Content-Disposition", "ContentDisposition">>,
    <<"Content-Language", "ContentLanguage">>,
    <<"Expires", "ExpiresString">>, <<"Accept-Ranges", "AcceptRanges">>,
    <<"Content-Length", "ContentLength">>,
    <<"Last-Modified", "LastModified">> }

\* C19 as stated: a successful response has Vary: Accept-Encoding, has each
\* optional header exactly when the object supplies a value for it, and has
\* no header with an empty value.
C19_OptionalHeadersNeverEmpty ==
  \A i \in Reqs :
    Fetched(i) =>
      /\ resp[i].header["Vary"] = <<"Accept-Encoding">>
      /\ \A p \in OptionalHeaders :
           (resp[i].header[p[1]] # <<>>) <=> (FetchedObj(i)[p[2]] # <<>>)
      /\ \A h \in HeaderNames : resp[i].header[h] # <<"">>

\* C19, the part that holds: Vary is set and each optional header is set
\* exactly when the object's field is not nil.
C19_OptionalHeadersIffSupplied ==
  \A i \in Reqs :
    Fetched(i) =>
      /\ resp[i].header["Vary"] = <<"Accept-Encoding">>
      /\ \A p \in OptionalHeaders :
           (resp[i].header[p[1]] # <<>>) <=> (FetchedObj(i)[p[2]] # <<>>)

\* ProxyS3 is running for request i.
InProxyS3(i) == req[i].pc \in {"fetching", "copying"}

\* C20: every GetObject call returning, a request handled by ProxyS3 comes
\* to its end, and at its end exactly one status has been written: 200 after
\* a successful fetch, 400 for a path that does not split, otherwise the
\* translated status of the failure; at no point has a status been written
\* twice, and none is written while a fetch is pending.
C20_OneStatusAndTerminates ==
  /\ [](\A i \in Reqs :
          /\ resp[i].writes <= 1
          /\ req[i].pc = "fetching" => resp[i].writes = 0
          /\ (Done(i) /\ req[i].depth >= 1) =>
               /\ resp[i].writes = 1
               /\ Fetched(i) => resp[i].status = StatusOK
               /\ (~Fetched(i) /\ Len(fetches[i]) < req[i].depth) =>
                    resp[i].status = StatusBadRequest
               /\ (~Fetched(i) /\ Len(fetches[i]) = req[i].depth) =>
                    resp[i].status = s3ErrorToStatus(ErrOf(i, Len(results[i]))))
  /\ \A i \in Reqs : InProxyS3(i) ~> Done(i)

\* C20 witness: a request whose first fetch failed and whose fallback fetch
\* succeeded is over with one status written, 200.
C20_Witness ==
  \E i \in Reqs :
    /\ Done(i)
    /\ Len(results[i]) = 2
    /\ FirstFailed(i)
    /\ Fetched(i)
    /\ resp[i].writes = 1
    /\ resp[i].status = StatusOK

SegBucket == \* "bucket"
  <<"b", "u", "c", "k", "e", "t">>
KeyDecoded == \* "path/to file.txt"
  <<"p", "a", "t", "h", "/", "t", "o", " ", "f", "i", "l", "e", ".", "t", "x", "t">>
KeyBadEscape == \* "data/50%off"
  <<"d", "a", "t", "a", "/", "5", "0", "%", "o", "f", "f">>

\* The first "/" of p, the segment before it and the remainder after it.
FirstSlash(p) == CHOOSE k \in SlashPositions(p) : \A j \in SlashPositions(p) : k <= j

FirstSegment(p) == SubSeq(p, 1, FirstSlash(p) - 1)

Remainder(p) == SubSeq(p, FirstSlash(p) + 1, Len(p))

\* C21: the first fetch goes to the bucket that is the first segment of the
\* object path and to the key that is the percent-decoded remainder after
\* the first "/" ("/bucket/path/to%20file.txt": bucket "bucket", key
\* "path/to file.txt"); a remainder that is not validly percent-encoded is
\* the key as it stands and the fetch is made all the same.
C21_BucketAndDecodedKey ==
  \A i \in Reqs :
    (req[i].depth >= 1 /\ ~Undecomposable(req[i].full0)) =>
      LET p == Stripped(req[i].full0)
          un == PathUnescape(Remainder(p))
      IN  /\ Len(fetches[i]) >= 1
          /\ fetches[i][1].Bucket = FirstSegment(p)
          /\ ~un.err => fetches[i][1].Key = un.v
          /\ un.err => fetches[i][1].Key = Remainder(p)
          /\ req[i].full0 = FullEncodedKey =>
               (fetches[i][1].Bucket = SegBucket /\ fetches[i][1].Key = KeyDecoded)
          /\ (req[i].path = PathBadEscape /\ cfg.BucketPathPrefix = PrefixDefault) =>
               /\ un.err
               /\ fetches[i][1].Bucket = SegFrontendAssets
               /\ fetches[i][1].Key = KeyBadEscape

\* C21 witness: ProxyS3 called with "/bucket/path/to%20file.txt" is fetching
\* bucket "bucket", key "path/to file.txt".
C21_Witness ==
  \E i \in Reqs :
    /\ req[i].full0 = FullEncodedKey
    /\ req[i].pc = "fetching"
    /\ fetches[i][1].Bucket = SegBucket
    /\ fetches[i][1].Key = KeyDecoded

DropTrailingSlash(a) ==
  IF Len(a) >= 1 /\ a[Len(a)] = "/" THEN SubSeq(a, 1, Len(a) - 1) ELSE a

DropLeadingSlash(b) ==
  IF Len(b) >= 1 /\ b[1] = "/" THEN SubSeq(b, 2, Len(b)) ELSE b

JoinPathTo == \* "/path/to/file"
  <<"/", "p", "a", "t", "h", "/", "t", "o", "/", "f", "i", "l", "e">>

\* C22: JoinPath(a, b) is a without one trailing "/", then "/", then b
\* without one leading "/"; JoinPath("", "/to/file") is "/to/file" and
\* JoinPath("/path/", "") is "/path/".
C22_JoinPathOneSlash ==
  joined # <<>> =>
    LET a == joined[1].a
        b == joined[1].b
        out == joined[1].out
    IN  /\ out = DropTrailingSlash(a) \o <<"/">> \o DropLeadingSlash(b)
        /\ (a = <<>> /\ b = JoinSlashToFile) => out = JoinSlashToFile
        /\ (a = JoinPathSlash /\ b = <<>>) => out = JoinPathSlash
        /\ (a \in {JoinPathSlash, JoinPathNoSlash} /\ b \in {JoinSlashToFile, JoinToFile}) =>
             out = JoinPathTo

\* C22 witness: JoinPath("/path/", "") was called and gave "/path/".
C22_Witness ==
  /\ joined # <<>>
  /\ joined[1].a = JoinPathSlash
  /\ joined[1].b = <<>>
  /\ joined[1].out = JoinPathSlash

\* Requests i and j were given the same method, path and headers.
SameRequest(i, j) ==
  /\ req[i].pc # "idle"
  /\ req[j].pc # "idle"
  /\ req[i].method = req[j].method
  /\ req[i].path = req[j].path
  /\ req[i].hdr = req[j].hdr

\* Everything the model keeps for request j.
Own(j) == <<req[j], fetches[j], results[j], resp[j], streams[j]>>

OneRequestSteps == \E i \in Reqs : \A j \in Reqs \ {i} : Own(j)' = Own(j)

MalformedDates == {"yesterday", "2015-10-21T07:28:00Z"}

\* C24: a request whose If-Modified-Since or If-Unmodified-Since is present
\* but malformed is fetched like any other, with that field unset and every
\* other conditional field as the request's headers give it; nothing is
\* written to the response before the fetch returns.
C24_MalformedDateDropped ==
  \A i \in Reqs :
    LET h == req[i].hdr
    IN  ( /\ req[i].depth >= 1
          /\ ~Undecomposable(req[i].full0)
          /\ (h.IfModifiedSince \in MalformedDates
                \/ h.IfUnmodifiedSince \in MalformedDates) ) =>
          /\ Len(fetches[i]) >= 1
          /\ req[i].pc = "fetching" => resp[i] = NoResp
          /\ LET in == fetches[i][1]
             IN  /\ h.IfModifiedSince \in MalformedDates => in.IfModifiedSince = <<>>
                 /\ h.IfUnmodifiedSince \in MalformedDates => in.IfUnmodifiedSince = <<>>
                 /\ in.Range = (IF h.Range = "" THEN <<>> ELSE <<h.Range>>)
                 /\ in.IfNoneMatch = (IF h.IfNoneMatch = "" THEN <<>> ELSE <<h.IfNoneMatch>>)
                 /\ in.IfMatch = (IF h.IfMatch = "" THEN <<>> ELSE <<h.IfMatch>>)
                 /\ h.IfModifiedSince = "Wed Oct 21 07:28:00 2015" =>
                      in.IfModifiedSince = <<1445412480>>
                 /\ h.IfUnmodifiedSince = "Sun, 06 Nov 1994 08:49:37 GMT" =>
                      in.IfUnmodifiedSince = <<784111777>>

\* C24 witness: a request with a malformed If-Unmodified-Since and a well
\* formed If-Modified-Since got 200 from a fetch that carried the latter and
\* not the former.
C24_Witness ==
  \E i \in Reqs :
    /\ req[i].hdr.IfUnmodifiedSince = "2015-10-21T07:28:00Z"
    /\ Len(fetches[i]) = 1
    /\ fetches[i][1].IfUnmodifiedSince = <<>>
    /\ fetches[i][1].IfModifiedSince = <<1445412480>>
    /\ fetches[i][1].IfMatch = <<"\"current-etag\"">>
    /\ Fetched(i)
    /\ resp[i].status = StatusOK

\* ProxyS3 went into its fallback for request i, and the fallback did not
\* end in a fetched object.
FallbackFailed(i) == req[i].depth = 2 /\ Done(i) /\ ~Fetched(i)

C26_UpstreamStatusPassedThrough ==
  \A i \in Reqs : \A k \in 1..Len(results[i]) :
    LET err == ErrOf(i, k)
    IN  (err # <<>> /\ ~Timeout(err) /\ CarriesResponse(err)) =>
          /\ s3ErrorToStatus(err) = ResponseStatus(err)
          /\ (k = 1 /\ DefaultConfig) =>
               (Len(fetches[i]) = 2 <=> ResponseStatus(err) \in {403, 404})
          /\ FinalFailure(i, k) =>
               /\ resp[i].status = ResponseStatus(err)
               /\ resp[i].writes = 1

\* C26 witness: a failure with code InternalError that came with an upstream
\* 404 response led to the fallback fetch, which failed with code NoSuchKey
\* and an upstream 304 response, and the response is 304.
C26_Witness ==
  \E i \in Reqs :
    /\ Len(results[i]) = 2
    /\ ErrOf(i, 1) = <<ErrOp, ErrResp(404), ErrAPI("InternalError")>>
    /\ ErrOf(i, 2) = <<ErrOp, ErrResp(304), ErrAPI("NoSuchKey")>>
    /\ FinalFailure(i, 2)
    /\ resp[i].status = 304

C27_WitnessFirstFetch ==
  \E i \in Reqs :
    /\ Done(i)
    /\ req[i].canceled
    /\ Len(results[i]) = 1
    /\ ErrOf(i, 1) \in CanceledChains
    /\ req[i].full # spaPath(cfg)
    /\ Len(fetches[i]) = 1

====
